---- MODULE Spec2Model ----
(***************************************************************************)
(* The header-verification process of consensus/process/process.go:        *)
(* the event loop (dispatcher) of NewConsensusProcess, the cleanup loop,   *)
(* the registry of pending verifications (API.ProcessingRequests), the     *)
(* header cache, and the ancestor-request arithmetic.                      *)
(*                                                                         *)
(* A header is identified by its hash, an integer n * 10 + v: block number *)
(* n, variant v (two headers of one number differ in v).  Every header's   *)
(* parent is the variant-0 header of the number below.  The seal flag is   *)
(* only handed through to the rule engine and is left out.                 *)
(***************************************************************************)
EXTENDS Integers, Sequences, FiniteSets, TLC

\* ------------------------------------------------------------------ bounds
MaxBatches == 1      \* VerifyBatch messages received
MaxIntake == 2       \* VerifyBatch messages received while no fetch is answered
MaxResps == 2        \* AncestorFetchResult messages received
MaxBatchLen == 2     \* headers in one batch
MaxFetchLen == 2     \* headers in one AncestorFetchResult
MaxK == 3            \* largest answer of NeededForVerification
CleanupCap == 1      \* capacity of API.CleanupCh in the model
MaxWideLen == 3      \* headers in the one batch of the intake over three block numbers

\* ------------------------------------------------------------------ headers
Nil == 0
ZeroHash == 0

Hdr(n, v) == n * 10 + v
Number(h) == h \div 10
Hash(h) == h
ParentHash(h) == Hdr(Number(h) - 1, 0)

ReqIDs == {1, 2}
BatchPool == {Hdr(10, 0), Hdr(11, 0)}
Ancestors == {Hdr(8, 0), Hdr(9, 0)}
InitCachePool == {Hdr(9, 0), Hdr(10, 0)}

SeqsUpTo(S, n) == UNION {[1..k -> S] : k \in 0..n}
BatchInputs == SeqsUpTo(BatchPool \cup {Nil}, MaxBatchLen)
FetchInputs == SeqsUpTo(Ancestors, MaxFetchLen)
FetchErrHashes == BatchPool \cup {Hdr(9, 0)}

Range(s) == {s[i] : i \in DOMAIN s}

VARIABLES
    needed,      \* rule engine: NeededForVerification, per header
    cache,       \* API.VerifiedBlocks: the set of cached headers
    cache0,      \* the cache when the process was constructed
    registry,    \* API.ProcessingRequests: <<reqID, number>> -> VerifyRequest
    cleanupCh,   \* API.CleanupCh: queued FinishedRequest <<reqID, number>>
    results,     \* every VerifyHeaderResponse sent, in order
    fetchReqs,   \* every HeadersRequest sent, in order
    disp,        \* the event loop's position and locals
    crashed,     \* the process died of a panic
    batches,     \* every VerifyBatch received, in order (its index is its deadline)
    elapsed,     \* the batches whose deadline has passed
    nResp,       \* AncestorFetchResults received
    shut         \* the exit channel is closed; the cleanup loop has returned

vars == <<needed, cache, cache0, registry, cleanupCh, results, fetchReqs, disp, crashed,
          batches, elapsed, nResp, shut>>

Select == [pc |-> "select"]

Init ==
    /\ needed \in [BatchPool -> 0..MaxK]
    /\ cache \in SUBSET InitCachePool
    /\ cache0 = cache
    /\ registry = <<>>
    /\ cleanupCh = <<>>
    /\ results = <<>>
    /\ fetchReqs = <<>>
    /\ disp = Select
    /\ crashed = FALSE
    /\ batches = <<>>
    /\ elapsed = {}
    /\ nResp = 0
    /\ shut = [exit |-> FALSE, cleanupDone |-> FALSE]

\* ------------------------------------------------------------------ collaborators
\* API.GetCachedHeader: the cached header of that hash and number, or Nil
GetCachedHeader(c, hash, number) ==
    IF hash \in c /\ Number(hash) = number THEN hash ELSE Nil

\* API.CacheHeader: nil is ignored
CacheHeader(c, header) == IF header = Nil THEN c ELSE c \cup {header}

\* Server.NeededForVerification
NeededForVerification(header) == needed[header]

\* ------------------------------------------------------------------ ancestor requests
\* The loop of requestHeadersNotFromRange.  The block numbers of the model stay
\* above 0, so the uint64 loop variable never wraps.
RECURSIVE CacheWalk(_, _, _, _)
CacheWalk(c, parentBlockNum, minHeader, st) ==
    IF parentBlockNum < minHeader THEN st
    ELSE LET parentBlock == GetCachedHeader(c, st.highestKnown, parentBlockNum) IN
         IF parentBlock = Nil THEN st
         ELSE LET higher == st.highestParentNumber < Number(parentBlock) IN
              CacheWalk(c, parentBlockNum - 1, minHeader,
                  [known |-> Append(st.known, parentBlock),
                   highestKnown |-> ParentHash(parentBlock),
                   highestParentNumber |->
                       IF higher THEN Number(parentBlock) ELSE st.highestParentNumber,
                   highestParentHash |->
                       IF higher THEN Hash(parentBlock) ELSE st.highestParentHash])

\* parentsToGet-1 is a uint64: with parentsToGet = 0 it is 2^64-1 and minHeader stays 0
requestHeadersNotFromRange(c, reqID, highestBlock, highestKnown, parentsToGet) ==
    LET minHeader == IF parentsToGet > 0 /\ highestBlock > parentsToGet - 1
                     THEN highestBlock - parentsToGet + 1
                     ELSE 0
        st == CacheWalk(c, highestBlock, minHeader,
                  [known |-> <<>>,
                   highestKnown |-> highestKnown,
                   highestParentNumber |-> highestBlock,
                   highestParentHash |-> highestKnown])
    IN [known |-> st.known,
        req |-> [ID |-> reqID,
                 HighestHash |-> st.highestParentHash,
                 HighestBlockNumber |-> st.highestParentNumber,
                 Number |-> parentsToGet - Len(st.known)]]

Min(S) == CHOOSE x \in S : \A y \in S : x <= y

checkHeadersFromRange(highestHeader, requestedHeaders, parentsToGet, parentsToValidate) ==
    LET toGet == parentsToValidate - parentsToGet
        same == {i \in DOMAIN requestedHeaders :
                    Number(requestedHeaders[i]) = Number(highestHeader)}
        idx == IF same = {} THEN -1 ELSE Min(same) - 1
    IN IF toGet <= 0 THEN <<>>
       ELSE IF idx < 0 THEN <<>>
       ELSE IF idx - toGet < 0 THEN <<>>
       ELSE SubSeq(requestedHeaders, idx - toGet + 1, idx)

\* [known, parentsToValidate, reqs]: reqs is <<>> for the nil request, else <<req>>
requestParentHeaders(c, reqID, header, reqHeaders) ==
    LET parentsToValidate == NeededForVerification(header)
        from == Number(reqHeaders[1])
        to == Number(reqHeaders[Len(reqHeaders)])
        parentsToAsk ==
            IF Number(header) > from /\ Number(header) <= to
            THEN IF Number(header) >= from + parentsToValidate
                 THEN 0
                 ELSE from - (Number(header) - parentsToValidate)
            ELSE parentsToValidate
        headerNumber == IF parentsToAsk > 0 THEN from - 1 ELSE Number(header)
        headerParentHash == IF parentsToAsk > 0 THEN ParentHash(reqHeaders[1])
                            ELSE ParentHash(header)
        notFromRange == requestHeadersNotFromRange(c, reqID, headerNumber,
                                                   headerParentHash, parentsToAsk)
        fromRange == checkHeadersFromRange(header, reqHeaders, parentsToAsk,
                                           parentsToValidate)
    IN IF parentsToValidate = 0
       THEN [known |-> <<>>, parentsToValidate |-> 0, reqs |-> <<>>]
       ELSE [known |-> notFromRange.known \o fromRange,
             parentsToValidate |-> parentsToValidate,
             reqs |-> <<notFromRange.req>>]

\* The loop of sumHeadersRequestsInRange over reqs[i..]
RECURSIVE SumLoop(_, _, _, _, _)
SumLoop(reqID, from, reqs, i, acc) ==
    IF i > Len(reqs) THEN acc
    ELSE LET req == reqs[i] IN
         IF req.ID # reqID \/ req.Number = 0
         THEN SumLoop(reqID, from, reqs, i + 1, acc)
         ELSE LET up == req.HighestBlockNumber > acc.maxBlockNumber
                        /\ req.HighestBlockNumber < from
                  low == req.HighestBlockNumber - req.Number + 1
              IN SumLoop(reqID, from, reqs, i + 1,
                     [maxBlockNumber |-> IF up THEN req.HighestBlockNumber
                                         ELSE acc.maxBlockNumber,
                      maxBlockHash |-> IF up THEN req.HighestHash ELSE acc.maxBlockHash,
                      minBlockToGet |-> IF low < acc.minBlockToGet THEN low
                                        ELSE acc.minBlockToGet])

\* [err, req]: err is errNothingToAsk
sumHeadersRequestsInRange(reqID, from, reqs) ==
    IF Len(reqs) = 0 THEN [err |-> TRUE, req |-> <<>>]
    ELSE LET acc == SumLoop(reqID, from, reqs, 1,
                        [maxBlockNumber |-> reqs[1].HighestBlockNumber,
                         maxBlockHash |-> reqs[1].HighestHash,
                         minBlockToGet |-> reqs[1].HighestBlockNumber - reqs[1].Number + 1])
         IN [err |-> FALSE,
             req |-> [ID |-> reqID,
                      HighestHash |-> acc.maxBlockHash,
                      HighestBlockNumber |-> acc.maxBlockNumber,
                      Number |-> acc.maxBlockNumber - acc.minBlockToGet + 1]]

\* ------------------------------------------------------------------ registry
toVerifyRequest(reqID, header, deadline, knownParents, parentsToValidate) ==
    [ID |-> reqID,
     Header |-> header,
     Deadline |-> deadline,
     KnownParents |-> knownParents,
     ParentsExpected |-> parentsToValidate,
     From |-> Number(header) - parentsToValidate,
     To |-> Number(header) - Len(knownParents) - 1]

addVerifyHeaderRequest(reg, reqID, header, deadline, knownParentsSlice, parentsToValidate) ==
    LET key == <<reqID, Number(header)>>
        request == toVerifyRequest(reqID, header, deadline, knownParentsSlice,
                                   parentsToValidate)
    IN [k \in DOMAIN reg \cup {key} |-> IF k = key THEN request ELSE reg[k]]

\* a removal that removes nothing
cleanupRequestNothing(reg, reqID, number) == reg

\* delete(reqBlocks, number), and the outer entry goes with its last inner one
cleanupRequest(reg, reqID, number) ==
    [k \in DOMAIN reg \ {<<reqID, number>>} |-> reg[k]]

\* delete(c.API.ProcessingRequests, reqID)
DeleteRequests(reg, reqID) ==
    [k \in {x \in DOMAIN reg : x[1] # reqID} |-> reg[k]]

\* The sends of verifyByRequest after Server.Verify answered ok: st holds the cache,
\* the results, the cleanup channel and the registry
verifyByRequest(st, reqID, header, parentsExpected, knownParents, ok) ==
    IF Len(knownParents) # parentsExpected
    THEN [attempted |-> FALSE, st |-> st]
    ELSE LET finishedRequest == <<reqID, Number(header)>>
             full == Len(st.cleanupCh) >= CleanupCap
         IN [attempted |-> TRUE,
             st |-> [cache |-> IF ok THEN CacheHeader(st.cache, header) ELSE st.cache,
                     results |-> Append(st.results,
                                     [id |-> reqID, hash |-> Hash(header),
                                      err |-> IF ok THEN "ok" ELSE "rule"]),
                     cleanupCh |-> IF full THEN st.cleanupCh
                                   ELSE Append(st.cleanupCh, finishedRequest),
                     registry |-> IF full
                                  THEN cleanupRequest(st.registry, reqID, Number(header))
                                  ELSE st.registry]]


\* ------------------------------------------------------------------ ancestor arrival
\* The loop of appendAncestors over ancestors[i..]; ancestorsMap: hash -> block numbers
RECURSIVE FoldAncestors(_, _, _, _)
FoldAncestors(request, ancestors, i, ancestorsMap) ==
    IF i > Len(ancestors) THEN [request |-> request, ancestorsMap |-> ancestorsMap]
    ELSE LET parent == ancestors[i]
             blockNumber == Number(request.Header)
             inRange == Number(parent) >= request.From /\ Number(parent) <= request.To
             has == Hash(parent) \in DOMAIN ancestorsMap
             add == inRange /\ (~has \/ blockNumber \notin ancestorsMap[Hash(parent)])
         IN FoldAncestors(
                IF add THEN [request EXCEPT !.KnownParents = Append(@, parent)]
                ELSE request,
                ancestors, i + 1,
                IF add
                THEN [h \in DOMAIN ancestorsMap \cup {Hash(parent)} |->
                         IF h = Hash(parent) THEN {blockNumber} ELSE ancestorsMap[h]]
                ELSE ancestorsMap)

\* knownByRequests holds at most the one request id of the pass: [ok, m]
appendAncestors(request, ancestors, knownByRequests) ==
    LET seeded == IF knownByRequests.ok THEN knownByRequests.m
                  ELSE [h \in {Hash(p) : p \in Range(request.KnownParents)} |->
                           {Number(request.Header)}]
        folded == FoldAncestors(request, ancestors, 1, seeded)
    IN [request |-> folded.request,
        knownByRequests |-> [ok |-> TRUE, m |-> folded.ancestorsMap]]

\* ------------------------------------------------------------------ orders
Injective(f) == \A i, j \in DOMAIN f : f[i] = f[j] => i = j

\* what sort.Slice may leave: a permutation ascending by number (ties in any order)
SortedCopies(hdrs) ==
    {s \in {[i \in DOMAIN hdrs |-> hdrs[p[i]]] :
               p \in {q \in [DOMAIN hdrs -> DOMAIN hdrs] : Injective(q)}} :
        \A i \in 1..(Len(s) - 1) : Number(s[i]) <= Number(s[i + 1])}

\* the same numbers, descending
RECURSIVE SortedNumsDescending(_)
SortedNumsDescending(S) ==
    IF S = {} THEN <<>>
    ELSE LET max == CHOOSE x \in S : \A y \in S : y <= x
         IN <<max>> \o SortedNumsDescending(S \ {max})

\* nums of VerifyRequestsCommonAncestor: the pending block numbers of reqID, ascending
RECURSIVE SortedNums(_)
SortedNums(S) == IF S = {} THEN <<>> ELSE <<Min(S)>> \o SortedNums(S \ {Min(S)})

\* the orders in which ranging over the two maps may visit the keys K: any, each
\* request id's keys together
MapOrders(K) ==
    {o \in {q \in [1..Cardinality(K) -> K] : Injective(q)} :
        \A i, j, k \in DOMAIN o : (i < j /\ j < k /\ o[i][1] = o[k][1]) => o[j][1] = o[i][1]}

\* ------------------------------------------------------------------ event loop
\* the same response without its error
EmptyHeaderResponseNoError(id) == [id |-> id, hash |-> ZeroHash, err |-> "ok"]

\* the response to a batch without headers, and to a nil header
EmptyHeaderResponse(id) == [id |-> id, hash |-> ZeroHash, err |-> "empty"]

\* case req := <-c.API.VerifyHeaderRequests, up to the sort
VerifyBatch(id, hdrs) ==
    /\ disp.pc = "select"
    /\ ~crashed
    /\ batches' = Append(batches, [id |-> id, headers |-> hdrs])
    /\ IF Len(hdrs) = 0
       THEN /\ results' = Append(results, EmptyHeaderResponse(id))
            /\ UNCHANGED <<disp, crashed>>
       ELSE IF Len(hdrs) >= 2 /\ Nil \in Range(hdrs)
       THEN \* the sort's less reads header.Number of a nil header
            /\ crashed' = TRUE
            /\ UNCHANGED <<disp, results>>
       ELSE /\ \E sorted \in SortedCopies(hdrs) :
                  disp' = [pc |-> "batch", id |-> id, hdrs |-> sorted, i |-> 1,
                           reqs |-> <<>>, deadline |-> Len(batches) + 1]
            /\ UNCHANGED <<results, crashed>>
    /\ UNCHANGED <<shut, needed, cache0, cache, registry, cleanupCh, fetchReqs, elapsed, nResp>>

\* the short circuit finds nothing
KnownHeaderNever(header) == FALSE

\* Short circuit if the header is known
KnownHeader(header) == GetCachedHeader(cache, Hash(header), Number(header)) # Nil

\* one round of the loop over req.Headers
BatchStep ==
    /\ disp.pc = "batch"
    /\ ~crashed
    /\ disp.i <= Len(disp.hdrs)
    /\ LET header == disp.hdrs[disp.i] IN
       IF header = Nil
       THEN /\ results' = Append(results, EmptyHeaderResponse(disp.id))
            /\ disp' = Select
            /\ UNCHANGED <<cache, registry, cleanupCh>>
       ELSE IF KnownHeader(header)
       THEN /\ results' = Append(results,
                              [id |-> disp.id, hash |-> Hash(header), err |-> "ok"])
            /\ disp' = [disp EXCEPT !.i = @ + 1]
            /\ UNCHANGED <<cache, registry, cleanupCh>>
       ELSE LET rp == requestParentHeaders(cache, disp.id, header, disp.hdrs) IN
            \E ok \in BOOLEAN :
                LET v == verifyByRequest(
                             [cache |-> cache, results |-> results,
                              cleanupCh |-> cleanupCh, registry |-> registry],
                             disp.id, header, rp.parentsToValidate, rp.known, ok)
                IN /\ cache' = v.st.cache
                   /\ results' = v.st.results
                   /\ cleanupCh' = v.st.cleanupCh
                   /\ registry' = IF v.attempted THEN v.st.registry
                                  ELSE addVerifyHeaderRequest(registry, disp.id, header,
                                           disp.deadline, rp.known, rp.parentsToValidate)
                   /\ disp' = [disp EXCEPT !.i = @ + 1, !.reqs = @ \o rp.reqs]
    /\ UNCHANGED <<shut, needed, cache0, fetchReqs, crashed, batches, elapsed, nResp>>

\* after the loop: sumHeadersRequestsInRange and the send on HeadersRequests
BatchEmit ==
    /\ disp.pc = "batch"
    /\ ~crashed
    /\ disp.i > Len(disp.hdrs)
    /\ LET sum == sumHeadersRequestsInRange(disp.id, Number(disp.hdrs[1]), disp.reqs) IN
       fetchReqs' = IF sum.err THEN fetchReqs ELSE Append(fetchReqs, sum.req)
    /\ disp' = Select
    /\ UNCHANGED <<shut, needed, cache0, cache, registry, cleanupCh, results, crashed, batches,
                   elapsed, nResp>>

\* the fetch collaborator answers only request ids it was asked for (any number of
\* times, with any headers)
Asked(id) == \E i \in DOMAIN fetchReqs : fetchReqs[i].ID = id

\* case parentResp := <-c.API.HeaderResponses with parentResp.Err != nil
HeaderResponseErr(id, hash) ==
    /\ disp.pc = "select"
    /\ ~crashed
    /\ nResp < MaxResps
    /\ Asked(id)
    /\ nResp' = nResp + 1
    /\ results' = Append(results, [id |-> id, hash |-> hash, err |-> "fetch"])
    /\ registry' = DeleteRequests(registry, id)
    /\ UNCHANGED <<shut, needed, cache0, cache, cleanupCh, fetchReqs, disp, crashed, batches, elapsed>>

\* case parentResp := <-c.API.HeaderResponses without error:
\* VerifyRequestsCommonAncestor up to its loop over nums
HeaderResponseOk(id, hdrs) ==
    /\ disp.pc = "select"
    /\ ~crashed
    /\ nResp < MaxResps
    /\ Asked(id)
    /\ nResp' = nResp + 1
    /\ LET nums == SortedNums({k[2] : k \in {x \in DOMAIN registry : x[1] = id}}) IN
       IF Len(hdrs) = 0 \/ Len(nums) = 0
       THEN UNCHANGED <<cache, disp>>
       ELSE /\ cache' = cache \cup Range(hdrs)
            /\ disp' = [pc |-> "pass", id |-> id, nums |-> nums, headers |-> hdrs,
                        knownByRequests |-> [ok |-> FALSE, m |-> <<>>]]
    /\ UNCHANGED <<shut, needed, cache0, registry, cleanupCh, results, fetchReqs, crashed, batches,
                   elapsed>>

\* one round of the loop over nums in VerifyRequestsCommonAncestor
PassStep ==
    /\ disp.pc = "pass"
    /\ ~crashed
    /\ LET key == <<disp.id, Head(disp.nums)>> IN
       IF key \notin DOMAIN registry
       THEN \* req is nil: appendAncestors reads request.Header
            /\ crashed' = TRUE
            /\ UNCHANGED <<cache, registry, cleanupCh, results, disp>>
       ELSE LET a == appendAncestors(registry[key], disp.headers, disp.knownByRequests)
                req == a.request
            IN \E ok \in BOOLEAN :
                LET v == verifyByRequest(
                             [cache |-> cache, results |-> results,
                              cleanupCh |-> cleanupCh,
                              registry |-> [registry EXCEPT ![key] = req]],
                             req.ID, req.Header, req.ParentsExpected, req.KnownParents, ok)
                IN /\ cache' = v.st.cache
                   /\ results' = v.st.results
                   /\ cleanupCh' = v.st.cleanupCh
                   /\ registry' = v.st.registry
                   /\ crashed' = crashed
                   /\ disp' = IF Len(disp.nums) = 1 THEN Select
                              ELSE [disp EXCEPT
                                       !.nums = Tail(@),
                                       !.headers = IF v.attempted
                                                   THEN Append(@, req.Header) ELSE @,
                                       !.knownByRequests = a.knownByRequests]
    /\ UNCHANGED <<shut, needed, cache0, fetchReqs, batches, elapsed, nResp>>

\* case <-c.API.CleanupTicker.C: cleanup()
Tick ==
    /\ disp.pc = "select"
    /\ ~crashed
    /\ LET expired == {k \in DOMAIN registry : registry[k].Deadline \in elapsed}
           gone == {k[1] : k \in expired}
       IN /\ \E order \in MapOrders(expired) :
                results' = results \o
                    [i \in DOMAIN order |->
                        [id |-> order[i][1], hash |-> Hash(registry[order[i]].Header),
                         err |-> "timeout"]]
          /\ registry' = [k \in {x \in DOMAIN registry : x[1] \notin gone} |-> registry[k]]
    /\ UNCHANGED <<shut, needed, cache0, cache, cleanupCh, fetchReqs, disp, crashed, batches, elapsed,
                   nResp>>

\* time passes the deadline of batch b; only registry entries carry a deadline, so
\* the step is taken while some entry carries this one
Elapse(b) ==
    /\ ~crashed
    /\ b \in (1..Len(batches)) \ elapsed
    /\ \E k \in DOMAIN registry : registry[k].Deadline = b
    /\ elapsed' = elapsed \cup {b}
    /\ UNCHANGED <<shut, needed, cache0, cache, registry, cleanupCh, results, fetchReqs, disp, crashed,
                   batches, nResp>>

\* ProcessingRequestsMu.  Every other critical section of the event loop is a single
\* map access inside one step; cleanup() keeps the lock from its Lock() to its
\* Unlock(), over the whole walk.
MuHeldByDispatcher == disp.pc = "sweep"

\* cleanup() step by step.  Lock(): now is read, the lock is taken, and the walk over
\* the two maps starts in one of the orders ranging may take.
SweepLock ==
    /\ disp.pc = "select"
    /\ ~crashed
    /\ \E order \in MapOrders(DOMAIN registry) :
           disp' = [pc |-> "sweep", now |-> elapsed,
                    todo |-> [i \in DOMAIN order |-> registry[order[i]]]]
    /\ UNCHANGED <<shut, needed, cache0, cache, registry, cleanupCh, results, fetchReqs, crashed,
                   batches, elapsed, nResp>>

\* the walk stands at an entry whose deadline is before now: the send on
\* VerifyHeaderResponses comes next
SweepAtSend ==
    /\ disp.pc = "sweep"
    /\ Len(disp.todo) > 0
    /\ Head(disp.todo).Deadline \in disp.now

\* one round of the inner loop of cleanup()
SweepStep ==
    /\ disp.pc = "sweep"
    /\ ~crashed
    /\ Len(disp.todo) > 0
    /\ LET req == Head(disp.todo) IN
       IF SweepAtSend
       THEN /\ results' = Append(results, [id |-> req.ID, hash |-> Hash(req.Header),
                                           err |-> "timeout"])
            /\ registry' = DeleteRequests(registry, req.ID)
       ELSE UNCHANGED <<results, registry>>
    /\ disp' = [disp EXCEPT !.todo = Tail(@)]
    /\ UNCHANGED <<shut, needed, cache0, cache, cleanupCh, fetchReqs, crashed, batches, elapsed,
                   nResp>>

\* Unlock() and back to the select
SweepUnlock ==
    /\ disp.pc = "sweep"
    /\ ~crashed
    /\ Len(disp.todo) = 0
    /\ disp' = Select
    /\ UNCHANGED <<shut, needed, cache0, cache, registry, cleanupCh, results, fetchReqs, crashed,
                   batches, elapsed, nResp>>

\* the cleanup loop: case req := <-c.API.CleanupCh
CleanupLoop ==
    /\ ~crashed
    /\ Len(cleanupCh) > 0
    /\ ~MuHeldByDispatcher
    /\ ~shut.cleanupDone
    /\ registry' = cleanupRequest(registry, Head(cleanupCh)[1], Head(cleanupCh)[2])
    /\ cleanupCh' = Tail(cleanupCh)
    /\ UNCHANGED <<shut, needed, cache0, cache, results, fetchReqs, disp, crashed, batches, elapsed,
                   nResp>>

Receive ==
    /\ Len(batches) < MaxBatches
    /\ \E id \in ReqIDs, hdrs \in BatchInputs : VerifyBatch(id, hdrs)
FetchFailed == \E id \in ReqIDs, hash \in FetchErrHashes : HeaderResponseErr(id, hash)
FetchAnswered == \E id \in ReqIDs, hdrs \in FetchInputs : HeaderResponseOk(id, hdrs)
DeadlinePasses == \E b \in 1..Len(batches) : Elapse(b)

Next ==
    \/ Receive
    \/ BatchStep
    \/ BatchEmit
    \/ FetchFailed
    \/ FetchAnswered
    \/ PassStep
    \/ Tick
    \/ DeadlinePasses
    \/ CleanupLoop

Spec == Init /\ [][Next]_vars

\* the process while the fetch collaborator answers nothing: batches keep arriving on
\* top of the pending verifications of the earlier ones
ReceiveUnanswered ==
    /\ Len(batches) < MaxIntake
    /\ \E id \in ReqIDs, hdrs \in BatchInputs : VerifyBatch(id, hdrs)

IntakeNext ==
    \/ ReceiveUnanswered
    \/ BatchStep
    \/ BatchEmit
    \/ Tick
    \/ DeadlinePasses
    \/ CleanupLoop

IntakeSpec == Init /\ [][IntakeNext]_vars

\* the scheduler is fair to the event loop's rounds, the ticker, the clock and the
\* cleanup loop; nothing obliges the caller or the fetch collaborator to send
FairSpec ==
    /\ Spec
    /\ WF_vars(BatchStep)
    /\ WF_vars(BatchEmit)
    /\ WF_vars(PassStep)
    /\ WF_vars(Tick)
    /\ WF_vars(DeadlinePasses)
    /\ WF_vars(CleanupLoop)

\* the process with the expiry sweep taken step by step instead of as the one step
\* Tick
LockNext ==
    \/ Receive
    \/ BatchStep
    \/ BatchEmit
    \/ FetchFailed
    \/ FetchAnswered
    \/ PassStep
    \/ SweepLock
    \/ SweepStep
    \/ SweepUnlock
    \/ DeadlinePasses
    \/ CleanupLoop

LockSpec == Init /\ [][LockNext]_vars

\* the intake of one batch of up to MaxWideLen headers over three block numbers
\* (batches with gaps and with repeated headers), nothing answered and no tick
WidePool == BatchPool \cup {Hdr(12, 0)}
WideBatchInputs == SeqsUpTo(WidePool, MaxWideLen)

WideInit ==
    /\ needed \in [WidePool -> 0..MaxK]
    /\ cache \in SUBSET InitCachePool
    /\ cache0 = cache
    /\ registry = <<>>
    /\ cleanupCh = <<>>
    /\ results = <<>>
    /\ fetchReqs = <<>>
    /\ disp = Select
    /\ crashed = FALSE
    /\ batches = <<>>
    /\ elapsed = {}
    /\ nResp = 0
    /\ shut = [exit |-> FALSE, cleanupDone |-> FALSE]

ReceiveWide ==
    /\ Len(batches) < MaxBatches
    /\ \E id \in ReqIDs, hdrs \in WideBatchInputs : VerifyBatch(id, hdrs)

WideNext ==
    \/ ReceiveWide
    \/ BatchStep
    \/ BatchEmit
    \/ CleanupLoop

WideSpec == WideInit /\ [][WideNext]_vars

\* the caller closes the exit channel
CloseExit ==
    /\ ~shut.exit
    /\ shut' = [shut EXCEPT !.exit = TRUE]
    /\ UNCHANGED <<needed, cache, cache0, registry, cleanupCh, results, fetchReqs, disp,
                   crashed, batches, elapsed, nResp>>

\* the event loop's select takes case <-exit: return
EventLoopExit ==
    /\ shut.exit
    /\ disp.pc = "select"
    /\ ~crashed
    /\ disp' = [pc |-> "done"]
    /\ UNCHANGED <<needed, cache, cache0, registry, cleanupCh, results, fetchReqs, crashed,
                   batches, elapsed, nResp, shut>>

\* the cleanup loop's select takes case <-exit: return
CleanupLoopExit ==
    /\ shut.exit
    /\ ~shut.cleanupDone
    /\ ~crashed
    /\ shut' = [shut EXCEPT !.cleanupDone = TRUE]
    /\ UNCHANGED <<needed, cache, cache0, registry, cleanupCh, results, fetchReqs, disp,
                   crashed, batches, elapsed, nResp>>

\* the process with its shutdown, while the fetch collaborator answers nothing.  A
\* select with several ready cases takes any of them, so every case of Next stays
\* enabled after the exit channel is closed.
ShutNext ==
    \/ Receive
    \/ BatchStep
    \/ BatchEmit
    \/ Tick
    \/ DeadlinePasses
    \/ CleanupLoop
    \/ CloseExit
    \/ EventLoopExit
    \/ CleanupLoopExit

ShutSpec == Init /\ [][ShutNext]_vars

\* ------------------------------------------------------------------ properties
\* how often header h was submitted under request id, over all batches received
Submitted(id, h) ==
    Cardinality({<<b, i>> \in (DOMAIN batches) \X (1..MaxBatchLen) :
                    /\ batches[b].id = id
                    /\ i \in DOMAIN batches[b].headers
                    /\ batches[b].headers[i] = h})

\* a batch with headers, none of them absent
ValidBatch(b) == Len(b.headers) > 0 /\ Nil \notin Range(b.headers)

ResultsAt(rs, id, h) == {i \in DOMAIN rs : rs[i].id = id /\ rs[i].hash = Hash(h)}
Verdicts == {"ok", "rule", "timeout"}

\* C2: a header submitted once under a request id never gets a second verification
\* verdict or timeout, whatever the interleaving of fetch results, ticks and removals.
C2_AtMostOnce ==
    \A id \in ReqIDs, h \in BatchPool :
        Submitted(id, h) = 1 =>
            Cardinality({i \in ResultsAt(results, id, h) : results[i].err \in Verdicts}) <= 1

\* C3: a failed fetch for request id resolves every pending entry of id with the fetch
\* error under that entry's header hash, one result each, and leaves no entry of id.
C3_FetchErrorResolvesAll ==
    [][\A id \in ReqIDs, hash \in FetchErrHashes :
          HeaderResponseErr(id, hash) =>
              LET pend == {k \in DOMAIN registry : k[1] = id}
                  new == (Len(results) + 1)..Len(results')
              IN /\ Len(results') = Len(results) + Cardinality(pend)
                 /\ \A k \in pend : \E i \in new :
                        results'[i] = [id |-> id, hash |-> Hash(registry[k].Header),
                                       err |-> "fetch"]
                 /\ \A k \in DOMAIN registry' : k[1] # id]_vars

NoDuplicates(s) == \A i, j \in DOMAIN s : s[i] = s[j] => i = j

\* C5: in every registry entry known-parents holds no header twice and no more
\* headers than parents-expected.
C5_KnownParentsBounded ==
    \A k \in DOMAIN registry :
        /\ NoDuplicates(registry[k].KnownParents)
        /\ Len(registry[k].KnownParents) <= registry[k].ParentsExpected

\* C7: when every per-header fetch request of a batch has count 0 no request is
\* sent for the batch, and no request with count 0 is ever sent.
C7_NothingToAskNothingSent ==
    [][/\ (/\ disp.pc = "batch"
           /\ disp.i > Len(disp.hdrs)
           /\ \A i \in DOMAIN disp.reqs : disp.reqs[i].Number = 0)
          => fetchReqs' = fetchReqs
       /\ \A i \in DOMAIN fetchReqs' : fetchReqs'[i].Number > 0]_vars

\* C9: receiving a batch without headers sends exactly the empty-header error for its
\* request id, sends no fetch request, and leaves registry, cache and event loop as
\* they were.
C9_EmptyBatch ==
    [][(/\ Len(batches') = Len(batches) + 1
        /\ Len(batches'[Len(batches')].headers) = 0)
       => /\ results' = Append(results,
                 [id |-> batches'[Len(batches')].id, hash |-> ZeroHash, err |-> "empty"])
          /\ fetchReqs' = fetchReqs
          /\ registry' = registry
          /\ cache' = cache
          /\ cleanupCh' = cleanupCh
          /\ disp' = Select
          /\ ~crashed']_vars

\* an empty batch has been answered while verifications were pending and the cache
\* held headers
C9_Witness ==
    /\ Len(batches) > 0
    /\ Len(batches[Len(batches)].headers) = 0
    /\ Len(results) = 1
    /\ results[Len(results)] = [id |-> batches[Len(batches)].id, hash |-> ZeroHash,
                                 err |-> "empty"]
    /\ disp.pc = "select"
    /\ registry # <<>>
    /\ cache # {}

\* C10: a batch holding an absent header never kills the event loop; once the loop is
\* back at its select the batch has exactly one empty-header result and no fetch
\* request.
C10_NilHeaderHandled ==
    \A b \in DOMAIN batches :
        Nil \in Range(batches[b].headers) =>
            /\ ~crashed
            /\ disp.pc = "select" =>
                  /\ Cardinality({i \in DOMAIN results :
                         results[i] = [id |-> batches[b].id, hash |-> ZeroHash,
                                       err |-> "empty"]}) = 1
                  /\ \A i \in DOMAIN fetchReqs : fetchReqs[i].ID # batches[b].id

\* C1: no header of a batch that has headers, none absent, is dropped without a
\* result: while it has none it still awaits its round of the loop over the batch or
\* is registered as pending, so that a verification, a fetch failure or the expiry
\* sweep will resolve it.
C1_NoHeaderDropped ==
    \A b \in DOMAIN batches :
        ValidBatch(batches[b]) =>
            \A h \in Range(batches[b].headers) :
                \/ ResultsAt(results, batches[b].id, h) # {}
                \/ /\ disp.pc = "batch"
                   /\ b = Len(batches)
                   /\ \E j \in disp.i..Len(disp.hdrs) : disp.hdrs[j] = h
                \/ \E k \in DOMAIN registry :
                       k[1] = batches[b].id /\ registry[k].Header = h

\* the first result of header h under id is a timeout
TimedOut(id, h) ==
    /\ ResultsAt(results, id, h) # {}
    /\ results[Min(ResultsAt(results, id, h))].err = "timeout"

\* C4: the expiry sweep gives every entry whose deadline has passed, and whose
\* header has no result yet, a timeout result; and once a header has timed out the
\* handling of a fetch result for its request id adds no result for it.
C4_TimeoutIsFinal ==
    [][/\ Tick =>
              \A k \in DOMAIN registry :
                  (/\ registry[k].Deadline \in elapsed
                   /\ ResultsAt(results, k[1], registry[k].Header) = {})
                  => \E i \in (Len(results) + 1)..Len(results') :
                         results'[i] = [id |-> k[1], hash |-> Hash(registry[k].Header),
                                        err |-> "timeout"]
       /\ \A id \in ReqIDs, h \in BatchPool :
              (/\ Submitted(id, h) = 1
               /\ TimedOut(id, h)
               /\ (nResp' # nResp \/ disp.pc = "pass"))
              => ResultsAt(results', id, h) = ResultsAt(results, id, h)]_vars

\* the block numbers below the batch that header i of the sorted batch needs and the
\* cache does not hold: none for a cached header
ExternalNeed(hdrs, i) ==
    IF hdrs[i] \in cache THEN {}
    ELSE {m \in (Number(hdrs[i]) - needed[hdrs[i]])..(Number(hdrs[1]) - 1) :
             Hdr(m, 0) \notin cache}

Window(req) == (req.HighestBlockNumber - req.Number + 1)..req.HighestBlockNumber

\* C6: a batch is followed by at most one fetch request, and when two or more
\* different headers of it need ancestors from outside, the request's window holds
\* all of them.
C6_MergedRequestCoversUnion ==
    [][/\ Len(fetchReqs') <= Len(batches')
       /\ (/\ disp.pc = "batch"
           /\ disp.i > Len(disp.hdrs)
           /\ disp'.pc = "select"
           /\ Cardinality({disp.hdrs[i] : i \in {j \in DOMAIN disp.hdrs :
                               ExternalNeed(disp.hdrs, j) # {}}}) >= 2)
          => /\ Len(fetchReqs') = Len(fetchReqs) + 1
             /\ UNION {ExternalNeed(disp.hdrs, i) : i \in DOMAIN disp.hdrs}
                    \subseteq Window(fetchReqs'[Len(fetchReqs')])]_vars

\* C8: the batch {1, [H10, H11]} with 2 ancestors needed for H10, 1 for H11 and an
\* empty cache: the one request {1, H9, 9, 2}; no result before a fetch result has
\* arrived; H11's result only after H10's success; both succeed once H8 and H9 came.
C8_ExampleBatch ==
    (/\ batches = <<[id |-> 1, headers |-> <<Hdr(10, 0), Hdr(11, 0)>>]>>
     /\ needed[Hdr(10, 0)] = 2
     /\ needed[Hdr(11, 0)] = 1
     /\ cache0 = {})
    => /\ disp.pc # "batch" =>
              fetchReqs = <<[ID |-> 1, HighestHash |-> Hdr(9, 0),
                             HighestBlockNumber |-> 9, Number |-> 2]>>
       /\ nResp = 0 => results = <<>>
       /\ \A i \in ResultsAt(results, 1, Hdr(11, 0)) :
              \E j \in 1..(i - 1) :
                  results[j] = [id |-> 1, hash |-> Hdr(10, 0), err |-> "ok"]
       /\ (/\ disp.pc = "select"
           /\ {Hdr(8, 0), Hdr(9, 0)} \subseteq cache
           /\ elapsed = {}
           /\ \A i \in DOMAIN results : results[i].err = "ok")
          => /\ ResultsAt(results, 1, Hdr(10, 0)) # {}
             /\ ResultsAt(results, 1, Hdr(11, 0)) # {}

\* C11: when the loop over a batch reaches a header that the cache holds under its
\* hash and number, the step sends the success result for it and nothing else: no
\* registry entry, no rule-engine verdict, no cache insert, no removal message, and no
\* per-header request added to those the batch will merge.
C11_CachedHeaderShortCircuit ==
    [][(/\ disp.pc = "batch"
        /\ disp.i <= Len(disp.hdrs)
        /\ disp.hdrs[disp.i] # Nil
        /\ GetCachedHeader(cache, Hash(disp.hdrs[disp.i]), Number(disp.hdrs[disp.i])) # Nil
        /\ disp' # disp)
       => /\ results' = Append(results, [id |-> disp.id, hash |-> Hash(disp.hdrs[disp.i]),
                                         err |-> "ok"])
          /\ registry' = registry
          /\ cache' = cache
          /\ cleanupCh' = cleanupCh
          /\ fetchReqs' = fetchReqs
          /\ disp' = [disp EXCEPT !.i = @ + 1]
          /\ ~crashed']_vars

\* the first header of a batch was cached from the start and has just been answered,
\* while verifications of an earlier batch are pending
C11_Witness ==
    /\ disp.pc = "batch"
    /\ disp.i = 2
    /\ disp.hdrs[1] \in cache0
    /\ results[Len(results)] = [id |-> disp.id, hash |-> Hash(disp.hdrs[1]), err |-> "ok"]
    /\ disp.reqs = <<>>
    /\ registry # <<>>

\* C12: no task holds the registry lock at a send on a queue (nor over a rule-engine
\* call or a cache access): the lock spans single map accesses only.
C12_LockOnlyForMapAccess == ~(MuHeldByDispatcher /\ SweepAtSend)

\* the step is a verification attempt of the event loop: the rule engine's verdict on
\* a header goes out, at intake or in an ancestor-arrival pass
AttemptStep ==
    /\ \/ disp.pc = "pass"
       \/ /\ disp.pc = "batch"
          /\ disp.i <= Len(disp.hdrs)
          /\ disp.hdrs[disp.i] # Nil
          /\ GetCachedHeader(cache, Hash(disp.hdrs[disp.i]), Number(disp.hdrs[disp.i])) = Nil
    /\ Len(results') = Len(results) + 1
    /\ results'[Len(results')].err \in {"ok", "rule"}

\* the registry entry k has had its verdict
Attempted(k) ==
    \E i \in ResultsAt(results, k[1], registry[k].Header) : results[i].err \in {"ok", "rule"}

LowestAsked(req) == req.HighestBlockNumber - req.Number + 1

\* C14: a merged request that is sent starts strictly below the batch's lowest header,
\* at the number and hash of a per-header request with a count above 0, and its count
\* reaches down to the lowest block any such request asks for: requests with count 0
\* decide nothing of it.
C14_MergedOriginBelowBatch ==
    [][(disp.pc = "batch" /\ fetchReqs' # fetchReqs)
       => LET req == fetchReqs'[Len(fetchReqs')]
              nonZero == {i \in DOMAIN disp.reqs : disp.reqs[i].Number > 0}
          IN /\ req.HighestBlockNumber < Number(disp.hdrs[1])
             /\ \E i \in nonZero :
                    /\ disp.reqs[i].HighestBlockNumber = req.HighestBlockNumber
                    /\ disp.reqs[i].HighestHash = req.HighestHash
             /\ req.Number = req.HighestBlockNumber
                               - Min({LowestAsked(disp.reqs[i]) : i \in nonZero}) + 1]_vars

\* the header at position i of batch b has been through its round of the intake loop
Handled(b, i) ==
    \/ b < Len(batches)
    \/ disp.pc # "batch"
    \/ \E j \in 1..(disp.i - 1) : disp.hdrs[j] = batches[b].headers[i]

\* C15: the registry holds an entry for a header exactly while the header is pending:
\* no entry is there for a header that has a result already, and every header that went
\* through intake without a result (its ancestors were missing) has its entry.
C15_EntryIffUnresolved ==
    /\ \A k \in DOMAIN registry :
           /\ registry[k].ID = k[1] /\ Number(registry[k].Header) = k[2]
           /\ ResultsAt(results, k[1], registry[k].Header) = {}
    /\ \A b \in DOMAIN batches :
           ValidBatch(batches[b]) =>
               \A i \in DOMAIN batches[b].headers :
                   (/\ Handled(b, i)
                    /\ ResultsAt(results, batches[b].id, batches[b].headers[i]) = {})
                   => \E k \in DOMAIN registry :
                          /\ k = <<batches[b].id, Number(batches[b].headers[i])>>
                          /\ registry[k].Header = batches[b].headers[i]

\* C16: an ancestor-arrival pass takes the pending entries of its request id in
\* ascending block-number order, and a round that leaves the pass running adds the
\* entry's header to the pool of ancestors exactly when the round sent the rule
\* engine's verdict on it, accepted or rejected; otherwise the pool stays as it is.
C16_PassOrderAndPool ==
    [][(disp.pc = "pass" /\ disp' # disp /\ ~crashed')
       => LET key == <<disp.id, Head(disp.nums)>>
              header == registry[key].Header
              attempted == results' # results
          IN /\ \A i, j \in DOMAIN disp.nums : i < j => disp.nums[i] < disp.nums[j]
             /\ \A k \in DOMAIN registry : k[1] = disp.id /\ k[2] < Head(disp.nums)
                    => k[2] \notin Range(disp.nums)
             /\ attempted =>
                    /\ results' = Append(results, results'[Len(results')])
                    /\ results'[Len(results')].id = disp.id
                    /\ results'[Len(results')].hash = Hash(header)
                    /\ results'[Len(results')].err \in {"ok", "rule"}
             /\ attempted <=> (key \notin DOMAIN registry'
                               \/ Len(registry'[key].KnownParents)
                                      = registry'[key].ParentsExpected)
             /\ disp'.pc = "pass" =>
                    /\ disp'.nums = Tail(disp.nums)
                    /\ disp'.headers = IF attempted THEN Append(disp.headers, header)
                                       ELSE disp.headers]_vars

\* a pass goes on after the rule engine rejected a pending header: the header is in
\* the pool for the entries above it
C16_Witness ==
    /\ disp.pc = "pass"
    /\ Len(results) > 0
    /\ results[Len(results)].err = "rule"
    /\ results[Len(results)].id = disp.id
    /\ disp.headers[Len(disp.headers)] = results[Len(results)].hash
    /\ Number(disp.headers[Len(disp.headers)]) < Head(disp.nums)

\* how many of the k ancestors of block n lie below a batch that starts at block from
ToFetch(n, k, from) == IF n - k >= from THEN 0 ELSE from - (n - k)

\* C17: when the intake loop handles a header of number n that needs k ancestors and
\* is not the lowest of its sorted batch, the in-batch part of its known parents is the
\* k - toFetch batch headers of numbers n-(k-toFetch) .. n-1, one of each number, and
\* its known parents together with the count of its own request make k.
C17_InBatchParents ==
    [][(/\ disp.pc = "batch"
        /\ disp.i <= Len(disp.hdrs)
        /\ disp' # disp
        /\ disp.hdrs[disp.i] # Nil
        /\ GetCachedHeader(cache, Hash(disp.hdrs[disp.i]), Number(disp.hdrs[disp.i])) = Nil
        /\ NeededForVerification(disp.hdrs[disp.i]) > 0
        /\ Number(disp.hdrs[disp.i]) > Number(disp.hdrs[1]))
       => LET header == disp.hdrs[disp.i]
              n == Number(header)
              k == NeededForVerification(header)
              toFetch == ToFetch(n, k, Number(disp.hdrs[1]))
              inBatch == checkHeadersFromRange(header, disp.hdrs, toFetch, k)
              rp == requestParentHeaders(cache, disp.id, header, disp.hdrs)
          IN /\ Len(inBatch) = k - toFetch
             /\ \A j \in DOMAIN inBatch : Number(inBatch[j]) = n - (k - toFetch) + j - 1
             /\ Len(rp.known) + rp.reqs[1].Number = k
             /\ disp'.reqs = disp.reqs \o rp.reqs
             /\ results' = results =>
                    registry'[<<disp.id, n>>].KnownParents = rp.known]_vars

\* C18: once the exit channel is closed, a task that stands at its select takes no
\* further message: the event loop's next step from the select is its return, and the
\* cleanup loop handles no removal message any more.  (Each task finishes at most the
\* message it was handling when the channel was closed.)
C18_NoMessageAfterShutdown ==
    [][shut.exit =>
          /\ (disp.pc = "select" /\ disp' # disp) => disp'.pc = "done"
          /\ Len(cleanupCh') >= Len(cleanupCh)]_vars

\* how many of the n blocks below and including hb the cache holds in an unbroken
\* run from hb downwards
CachedRun(c, hb, n) ==
    LET runs == {j \in 0..n : \A i \in 0..(j - 1) : Hdr(hb - i, 0) \in c}
    IN CHOOSE j \in runs : \A l \in runs : l <= j

\* C19: when the intake loop handles a header that needs toFetch > 0 ancestors from
\* below the batch and the cache walk finds c of them, the header's own request has
\* count toFetch - c and asks for exactly the needed blocks the walk did not find: the
\* window ends below the cached ones.
C19_ResidualWindow ==
    [][(/\ disp.pc = "batch"
        /\ disp.i <= Len(disp.hdrs)
        /\ disp' # disp
        /\ disp.hdrs[disp.i] # Nil
        /\ GetCachedHeader(cache, Hash(disp.hdrs[disp.i]), Number(disp.hdrs[disp.i])) = Nil
        /\ NeededForVerification(disp.hdrs[disp.i]) > 0
        /\ ToFetch(Number(disp.hdrs[disp.i]), NeededForVerification(disp.hdrs[disp.i]),
                   Number(disp.hdrs[1])) > 0)
       => LET header == disp.hdrs[disp.i]
              from == Number(disp.hdrs[1])
              toFetch == ToFetch(Number(header), NeededForVerification(header), from)
              c == CachedRun(cache, from - 1, toFetch)
              req == disp'.reqs[Len(disp'.reqs)]
          IN /\ Len(disp'.reqs) = Len(disp.reqs) + 1
             /\ req.Number = toFetch - c
             /\ Window(req) = (from - toFetch)..(from - 1 - c)]_vars

\* C20: whenever a round of an ancestor-arrival pass reads the entry of the next
\* block number of its snapshot, the registry still holds that entry, and the round
\* does not end in a panic, whatever the cleanup loop has removed in the meantime.
C20_SnapshotEntryPresent ==
    [][(disp.pc = "pass" /\ (disp' # disp \/ crashed' # crashed))
       => /\ <<disp.id, Head(disp.nums)>> \in DOMAIN registry
          /\ ~crashed']_vars

====
